---- MODULE Spec2Model ----
(***************************************************************************)
(* number_guess.py: a terminal number-guessing game with a leaderboard     *)
(* kept in scores.json.                                                    *)
(*                                                                         *)
(* The specifications below share one set of definitions:                  *)
(*   SpecStore     - load_scores / save_score / show_leaderboard against   *)
(*                   the backing file, driven by two streams of save calls;*)
(*   SpecRace      - save_score run by two processes, its read and its     *)
(*                   write as separate steps;                              *)
(*   SpecAskInt    - ask_int as a function of its bounds and the text;     *)
(*   SpecRound     - one call of play_round (choose_difficulty, the        *)
(*                   guessing loop, the final save);                       *)
(*   SpecRoundFair - SpecRound with a program that keeps running and a     *)
(*                   user who ends up typing a valid guess;                *)
(*   SpecGuess     - one round from the return of choose_difficulty, each  *)
(*                   guess and the answer to it kept;                      *)
(*   SpecMain      - main: the name prompt, the menu loop and the rounds   *)
(*                   played from it.                                       *)
(*                                                                         *)
(* Text typed at a prompt is a tuple of one-character strings; the token   *)
(* "sup2" stands for the single character U+00B2 (superscript two).        *)
(* An elapsed time is an integer number of 1/128 s (exactly representable  *)
(* as a Python float); a stored time_taken is an integer number of 1/100 s.*)
(***************************************************************************)
EXTENDS Integers, Sequences, FiniteSets, TLC

VARIABLES
    file,          \* content of scores.json
    now,           \* last reading of int(time.time())
    nA, nB,        \* SpecStore: calls of each stream already made
    file0,         \* SpecStore: the file as it was before the first call
    fileBefore,    \* SpecStore: the file as it was before the last call
    last,          \* SpecStore: the operation that ran last
    loaded,        \* SpecStore: what the last load_scores returned
    out,           \* what the last step printed (a tuple of strings)
    err,           \* the exception the last step raised, "" if none
    askMin, askMax,\* SpecAskInt: the minv / maxv of the call ({} is None)
    inp,           \* SpecAskInt: the text typed last
    res,           \* SpecAskInt: the outcome of the last loop iteration
    pc,            \* SpecRound: where play_round is
    name,          \* play_round's name argument (<<>> is None / empty)
    choice,        \* choose_difficulty's local choice
    difficulty, low, high, max_attempts,
    secret, attempts, guessed,
    time_taken,    \* play_round's local time_taken, in 1/128 s
    outcome,       \* the branch play_round ended in: "WON", "LOST", "" before
    nGuess,        \* observer: guesses ask_int has returned this round
    anyHit,        \* observer: one of those guesses equalled the secret
    hist,          \* observer (SpecGuess): each guess ask_int returned this
                   \* round and what was printed in answer to it
    player,        \* main's local player
    mainChoice,    \* main's local choice
    nPlay,         \* observer (SpecMain): calls of play_round made by main
    rpc,           \* SpecRace: where each process is in save_score
    scores,        \* SpecRace: save_score's local scores, per process
    overlap        \* observer (SpecRace): a process has read the file while
                   \* the other was between its read and the end of its write

storeVars == <<file, now, nA, nB, file0, fileBefore, last, loaded>>
askVars   == <<askMin, askMax, inp, res>>
roundVars == <<pc, name, choice, difficulty, low, high, max_attempts,
               secret, attempts, guessed, time_taken, outcome, nGuess,
               anyHit, hist>>
raceVars  == <<rpc, scores, overlap>>
mainVars  == <<player, mainChoice, nPlay>>
vars      == <<storeVars, out, err, askVars, roundVars, raceVars, mainVars>>

\* ------------------------------------------------------------------ bounds

\* calls in each of the two streams of save_score calls (SpecStore)
LenA == 11
LenB == 11
\* save_score calls each of the two processes makes (SpecRace)
RaceSaves == 2
\* rounds played from the menu of main (SpecMain)
MaxRounds == 2
\* largest |value| typed at the Custom lower / upper bound prompts
MaxCustomBound == 5
\* largest value typed at the Custom max attempts prompt
MaxCustomAttempts == 2

\* --------------------------------------------------------------- constants

\* save_score keeps the best 20
KeepBest == 20

Min(a, b) == IF a < b THEN a ELSE b
Max(a, b) == IF a > b THEN a ELSE b
Abs(a)    == IF a < 0 THEN -a ELSE a

\* ------------------------------------------------------------- score store

\* What json.load yields: a list of score records, or some other JSON value
\* ("falsy": null, 0, "", {} ...; "truthy": 5, "x", {"a": 1} ...).
ListVal(items) == [type |-> "list", items |-> items]
OtherVal(t)    == [type |-> t, items |-> <<>>]

\* scores.json: absent, present but not parseable, or holding a JSON value.
AbsentFile    == [kind |-> "absent",  val |-> ListVal(<<>>)]
CorruptFile   == [kind |-> "corrupt", val |-> ListVal(<<>>)]
JsonFile(v)   == [kind |-> "json",    val |-> v]

\* load_scores without its try/except: what could not be parsed comes back
\* as an error value instead of an empty list
load_scores_no_catch(f) ==
    IF f.kind = "absent" THEN ListVal(<<>>)
    ELSE IF f.kind = "corrupt" THEN OtherVal("error")
    ELSE f.val

\* a load_scores that forgets what the file holds
load_scores_empty(f) == ListVal(<<>>)

\* lines 17-24
load_scores(f) ==
    IF f.kind = "absent" THEN ListVal(<<>>)
    ELSE IF f.kind = "corrupt" THEN ListVal(<<>>)
    ELSE f.val

\* time_taken cut to 2 decimals instead of rounded
Round2Floor(t) == (100 * t) \div 128

\* round(time_taken, 2) for t/128 s, in 1/100 s.  t/128 is exact in binary
\* floating point, so Python rounds the exact value, a tie to the even digit.
Round2(t) ==
    LET q == (100 * t) \div 128
        r == (100 * t) % 128
    IN  IF 2 * r < 128 THEN q
        ELSE IF 2 * r > 128 THEN q + 1
        ELSE IF q % 2 = 0 THEN q ELSE q + 1

\* the sort key (s["attempts"], s["time_taken"]), compared as Python tuples
KeyLess(a, b) ==
    \/ a.attempts < b.attempts
    \/ a.attempts = b.attempts /\ a.time_taken < b.time_taken

\* a sort that puts a record before the records with its own key
RECURSIVE InsertBeforeEqual(_, _)
InsertBeforeEqual(s, r) ==
    IF s = <<>> THEN <<r>>
    ELSE IF ~KeyLess(Head(s), r) THEN <<r>> \o s
    ELSE <<Head(s)>> \o InsertBeforeEqual(Tail(s), r)

\* sorted() is stable: a record goes after every record whose key is not
\* greater than its own.
RECURSIVE InsertStable(_, _)
InsertStable(s, r) ==
    IF s = <<>> THEN <<r>>
    ELSE IF KeyLess(r, Head(s)) THEN <<r>> \o s
    ELSE <<Head(s)>> \o InsertStable(Tail(s), r)

RECURSIVE SortedFrom(_, _)
SortedFrom(acc, rest) ==
    IF rest = <<>> THEN acc
    ELSE SortedFrom(InsertStable(acc, Head(rest)), Tail(rest))

\* sorted(..., reverse=True): worst first
SortedReversed(s) ==
    LET t == SortedFrom(<<>>, s) IN [k \in 1..Len(t) |-> t[Len(t) + 1 - k]]

Sorted(s) == SortedFrom(<<>>, s)

\* the slice forgotten
TruncateNone(s) == s

\* [:20]
Truncate(s) == SubSeq(s, 1, Min(KeepBest, Len(s)))

\* the winning guess left out of the count
NewRecordMiscounted(nm, att, t, diff, ts) ==
    [name |-> nm, attempts |-> att - 1, time_taken |-> Round2(t),
     difficulty |-> diff, timestamp |-> ts]

\* lines 28-34
NewRecord(nm, att, t, diff, ts) ==
    [name |-> nm, attempts |-> att, time_taken |-> Round2(t),
     difficulty |-> diff, timestamp |-> ts]

\* lines 28-38 on the loaded scores: the file they leave and the exception
\* they raise ("" if none).  A parsed value that is not a list has no append.
SaveLoaded(loadedScores, f, nm, att, t, diff, ts) ==
    IF loadedScores.type # "list"
    THEN [file |-> f, err |-> "AttributeError"]
    ELSE [file |-> JsonFile(ListVal(Truncate(Sorted(
                      Append(loadedScores.items, NewRecord(nm, att, t, diff, ts)))))),
          err  |-> ""]

\* what line 27 leaves in scores
ReadScores(f) == load_scores(f)

\* save_score, run without interruption
save_score(f, nm, att, t, diff, ts) ==
    SaveLoaded(ReadScores(f), f, nm, att, t, diff, ts)

NoLeaderboard == <<"No leaderboard yet">>
Leaderboard   == <<"--- Leaderboard (best first) ---">>

\* show_leaderboard: what it prints and the exception it raises.
show_leaderboard(f) ==
    LET listed == load_scores(f) IN
    IF listed.type = "falsy" \/ (listed.type = "list" /\ listed.items = <<>>)
    THEN [out |-> NoLeaderboard, err |-> ""]
    ELSE IF listed.type = "list"
    THEN [out |-> Leaderboard, err |-> ""]
    ELSE [out |-> Leaderboard, err |-> "TypeError"]

\* ---------------------------------------------------- SpecStore: the callers

Difficulties == <<"Easy", "Medium", "Hard", "Custom">>

\* One save_score call: its four arguments.
Call(nm, att, t, diff) ==
    [name |-> nm, attempts |-> att, time_taken |-> t, difficulty |-> diff]

\* Stream A: player "a" wins in 1, 2, 3, ... attempts with no measurable
\* delay; the last call repeats the attempts of the one before it with
\* 2/128 s, which rounds to 0.02 s.
CallA(i) ==
    Call(<<"a">>, IF i < LenA THEN i ELSE i - 1, IF i < LenA THEN 0 ELSE 2,
         Difficulties[(i % 4) + 1])

\* Stream B: player "b" wins in LenB, LenB - 1, ..., 1 attempts, each time
\* in 3/128 s, which also rounds to 0.02 s.
CallB(j) ==
    Call(<<"b">>, LenB + 1 - j, 3, Difficulties[(j % 4) + 1])

\* A leaderboard somebody wrote by hand: too long and not sorted.
OldList ==
    [k \in 1..(LenA + LenB) |->
        IF k <= LenB
        THEN NewRecord(CallB(k).name, CallB(k).attempts, CallB(k).time_taken,
                       CallB(k).difficulty, 0)
        ELSE NewRecord(CallA(k - LenB).name, CallA(k - LenB).attempts,
                       CallA(k - LenB).time_taken, CallA(k - LenB).difficulty, 0)]

StoreInitFiles ==
    {AbsentFile, CorruptFile, JsonFile(ListVal(<<>>)), JsonFile(ListVal(OldList)),
     JsonFile(OtherVal("falsy")), JsonFile(OtherVal("truthy"))}

NoRes == [kind |-> "none", n |-> 0, msg |-> <<>>]

\* the variables a specification does not use keep these values
AskIdle ==
    /\ askMin = {} /\ askMax = {} /\ inp = <<>> /\ res = NoRes

RoundIdle ==
    /\ pc = "idle" /\ name = <<>> /\ choice = <<>>
    /\ difficulty = "" /\ low = 0 /\ high = 0 /\ max_attempts = 0
    /\ secret = 0 /\ attempts = 0 /\ guessed = FALSE /\ time_taken = 0
    /\ outcome = "" /\ nGuess = 0 /\ anyHit = FALSE /\ hist = <<>>

StoreIdle ==
    /\ nA = 0 /\ nB = 0 /\ last = "init" /\ loaded = ListVal(<<>>)
    /\ fileBefore = file

Procs == {"A", "B"}

MainIdle ==
    /\ player = <<>> /\ mainChoice = <<>> /\ nPlay = 0

RaceIdle ==
    /\ rpc = [p \in Procs |-> "idle"]
    /\ scores = [p \in Procs |-> ListVal(<<>>)]
    /\ overlap = FALSE

InitStore ==
    /\ file \in StoreInitFiles
    /\ file0 = file
    /\ now = 1
    /\ StoreIdle
    /\ out = <<>> /\ err = ""
    /\ AskIdle /\ RoundIdle /\ RaceIdle /\ MainIdle

\* A caller runs save_score(c.name, c.attempts, c.time_taken, c.difficulty).
\* All the calls of SpecStore fall within one second of int(time.time()).
DoSave(c) ==
    LET r == save_score(file, c.name, c.attempts, c.time_taken, c.difficulty, now)
    IN  /\ file' = r.file
        /\ err' = r.err
        /\ now' = now
        /\ fileBefore' = file
        /\ last' = "save"
        /\ loaded' = ListVal(<<>>)
        /\ out' = <<>>

SaveA ==
    /\ nA < LenA
    /\ DoSave(CallA(nA + 1))
    /\ nA' = nA + 1
    /\ UNCHANGED <<nB, file0, askVars, roundVars, raceVars, mainVars>>

SaveB ==
    /\ nB < LenB
    /\ DoSave(CallB(nB + 1))
    /\ nB' = nB + 1
    /\ UNCHANGED <<nA, file0, askVars, roundVars, raceVars, mainVars>>

\* a caller runs load_scores()
Load ==
    /\ loaded' = load_scores(file)
    /\ fileBefore' = file
    /\ last' = "load"
    /\ err' = ""
    /\ out' = <<>>
    /\ UNCHANGED <<file, now, nA, nB, file0, askVars, roundVars, raceVars, mainVars>>

\* a caller runs show_leaderboard()
Show ==
    /\ out' = show_leaderboard(file).out
    /\ err' = show_leaderboard(file).err
    /\ last' = "show"
    /\ fileBefore' = file
    /\ loaded' = ListVal(<<>>)
    /\ UNCHANGED <<file, now, nA, nB, file0, askVars, roundVars, raceVars, mainVars>>

NextStore == SaveA \/ SaveB \/ Load \/ Show

SpecStore == InitStore /\ [][NextStore]_vars

\* ----------------------------------------------------------------- ask_int

Whitespace    == {" "}
DecimalChars  == {"0", "1", "2", "3", "4", "5", "6", "7", "8", "9"}
\* str.isdigit() is also true of digits that are not decimal, as U+00B2
DigitChars    == DecimalChars \cup {"sup2"}

CharVal(c) ==
    CASE c = "0" -> 0 [] c = "1" -> 1 [] c = "2" -> 2 [] c = "3" -> 3
      [] c = "4" -> 4 [] c = "5" -> 5 [] c = "6" -> 6 [] c = "7" -> 7
      [] c = "8" -> 8 [] c = "9" -> 9

\* str.strip()
RECURSIVE LStrip(_)
LStrip(s) == IF s # <<>> /\ Head(s) \in Whitespace THEN LStrip(Tail(s)) ELSE s
RECURSIVE RStrip(_)
RStrip(s) ==
    IF s # <<>> /\ s[Len(s)] \in Whitespace
    THEN RStrip(SubSeq(s, 1, Len(s) - 1)) ELSE s
Strip(s) == RStrip(LStrip(s))

\* str.isdigit(): not empty and every character a digit
IsDigit(s) == s # <<>> /\ \A k \in 1..Len(s) : s[k] \in DigitChars

\* the test of line 57
LooksLikeInt(val) ==
    IsDigit(val) \/ (Head(val) = "-" /\ IsDigit(Tail(val)))

\* int(val), for a val that passed the test of line 57: it raises
\* ValueError unless every digit is a decimal digit
Unsigned(val) == IF Head(val) = "-" THEN Tail(val) ELSE val
IntRaises(val) == \E k \in 1..Len(Unsigned(val)) : Unsigned(val)[k] \notin DecimalChars
RECURSIVE DecimalValue(_)
DecimalValue(d) ==
    IF d = <<>> THEN 0
    ELSE 10 * DecimalValue(SubSeq(d, 1, Len(d) - 1)) + CharVal(d[Len(d)])
IntOf(val) ==
    IF Head(val) = "-" THEN -DecimalValue(Tail(val)) ELSE DecimalValue(val)

PleaseEnter  == <<"Please enter a value.">>
NotAnInteger == <<"That's not an integer. Try again.">>
EnterInteger(minv, maxv) ==
    IF minv # {} /\ maxv # {}
    THEN <<"Enter an integer", "between minv and maxv">>
    ELSE <<"Enter an integer">>

Reprompt(msg) == [kind |-> "reprompt", n |-> 0, msg |-> msg]
Return(n)     == [kind |-> "return",   n |-> n, msg |-> <<>>]
Raise         == [kind |-> "raise",    n |-> 0, msg |-> <<>>]

\* the range test with the upper bound forgotten
OutOfRangeNoMax(n, minv, maxv) == \E m \in minv : n < m

\* the range test of line 59; minv and maxv are {} for None, else {bound}
OutOfRange(n, minv, maxv) ==
    (\E m \in minv : n < m) \/ (\E m \in maxv : n > m)

\* lines 53-58 on the typed text: empty, not an integer, int() raising
\* ValueError, or the integer n
Scan(text) ==
    LET val == Strip(text) IN
    IF val = <<>> THEN [kind |-> "empty", n |-> 0]
    ELSE IF LooksLikeInt(val)
    THEN IF IntRaises(val) THEN [kind |-> "raise", n |-> 0]
         ELSE [kind |-> "int", n |-> IntOf(val)]
    ELSE [kind |-> "notint", n |-> 0]

\* the texts typed at a prompt
Texts ==
    { <<>>, <<" ">>, <<"a">>, <<"-">>, <<"sup2">>, <<"+", "1">>, <<"1", "a">>,
      <<"1", " ", "2">>, <<" ", "2", " ">>, <<"0", "7">>,
      <<"0">>, <<"1">>, <<"2">>, <<"3">>, <<"4">>, <<"5">>, <<"7">>, <<"9">>,
      <<"1", "0">>, <<"5", "0">>, <<"1", "0", "0">>, <<"1", "0", "1">>,
      <<"-", "1">>, <<"-", "5">> }

\* Scan and str.strip() of each of them
Scanned  == [text \in Texts |-> Scan(text)]
Stripped == [text \in Texts |-> Strip(text)]

\* one iteration of ask_int's loop on the typed text: print a message and
\* loop, return n, or let int()'s ValueError out
AskIntStep(text, minv, maxv) ==
    CASE Scanned[text].kind = "empty"  -> Reprompt(PleaseEnter)
      [] Scanned[text].kind = "notint" -> Reprompt(NotAnInteger)
      [] Scanned[text].kind = "raise"  -> Raise
      [] Scanned[text].kind = "int"    ->
            IF OutOfRange(Scanned[text].n, minv, maxv)
            THEN Reprompt(EnterInteger(minv, maxv))
            ELSE Return(Scanned[text].n)

\* the (minv, maxv) ask_int is called with
AskBounds ==
    { <<{}, {}>>, <<{1}, {}>>, <<{}, {5}>>, <<{1}, {10}>>, <<{1}, {50}>>,
      <<{1}, {100}>>, <<{-3}, {3}>> }

InitAskInt ==
    /\ \E b \in AskBounds : askMin = b[1] /\ askMax = b[2]
    /\ inp = <<>> /\ res = NoRes
    /\ out = <<>> /\ err = ""
    /\ file = AbsentFile /\ file0 = AbsentFile /\ now = 0 /\ StoreIdle
    /\ RoundIdle /\ RaceIdle /\ MainIdle

\* the user types a line at ask_int's prompt
AskIntInput ==
    /\ res.kind \in {"none", "reprompt"}
    /\ \E text \in Texts :
          /\ inp' = text
          /\ res' = AskIntStep(text, askMin, askMax)
    /\ out' = res'.msg
    /\ err' = IF res'.kind = "raise" THEN "ValueError" ELSE ""
    /\ UNCHANGED <<askMin, askMax, storeVars, roundVars, raceVars, mainVars>>

NextAskInt == AskIntInput

SpecAskInt == InitAskInt /\ [][NextAskInt]_vars

\* ------------------------------------------------ SpecAskInt: the claims

\* an optional minus and then decimal digits only, blanks around it aside
IsIntegerText(text) ==
    LET v == Strip(text)
        d == IF v # <<>> /\ Head(v) = "-" THEN Tail(v) ELSE v
    IN  d # <<>> /\ \A k \in 1..Len(d) : d[k] \in DecimalChars

\* C5: ask_int returns only on a text that is an integer, the value of
\* that text, and within [minv, maxv] where these are given; an empty,
\* non-integer or out-of-range entry is never returned.
C5_ReturnsOnlyValid ==
    res.kind = "return" =>
        /\ IsIntegerText(inp)
        /\ res.n = IntOf(Strip(inp))
        /\ \A m \in askMin : m <= res.n
        /\ \A m \in askMax : res.n <= m

\* a value returned at the upper bound of a call with both bounds
C5_Witness ==
    /\ res.kind = "return"
    /\ askMin = {1} /\ askMax = {10}
    /\ inp = <<"1", "0">> /\ res.n = 10

\* C6: ask_int never fails: whatever is typed, it prints a message and
\* asks again, or returns; no error is raised.
C6_NeverFails ==
    /\ res.kind # "raise"
    /\ err = ""
    /\ res.kind = "reprompt" => out # <<>>

\* ------------------------------------------------------- choose_difficulty

\* the table with Medium given Hard's range
PresetSwapped(c) ==
    CASE c = <<"1">> -> [difficulty |-> "Easy",   low |-> 1, high |-> 10,  max_attempts |-> 6]
      [] c = <<"2">> -> [difficulty |-> "Medium", low |-> 1, high |-> 100, max_attempts |-> 7]
      [] c = <<"3">> -> [difficulty |-> "Hard",   low |-> 1, high |-> 100, max_attempts |-> 8]

\* lines 74-79
Preset(c) ==
    CASE c = <<"1">> -> [difficulty |-> "Easy",   low |-> 1, high |-> 10,  max_attempts |-> 6]
      [] c = <<"2">> -> [difficulty |-> "Medium", low |-> 1, high |-> 50,  max_attempts |-> 7]
      [] c = <<"3">> -> [difficulty |-> "Hard",   low |-> 1, high |-> 100, max_attempts |-> 8]

PresetChoices == {<<"1">>, <<"2">>, <<"3">>}

\* the test with an equal pair let through
BadRangeStrict(lo, hi) == hi < lo

\* line 83
BadRange(lo, hi) == hi <= lo

\* the pair asked again at once
AfterBadRangeLow == "low"

\* line 85: continue goes to the top of the while loop, the menu prompt
AfterBadRange == "menu"

InvalidChoice == <<"Invalid choice, try again.">>
UpperMustBeGreater == <<"Upper bound must be greater than lower bound.">>

\* -------------------------------------------------------------- play_round

\* the loop entered once more when the budget is used up
MoreAttemptsOffByOne(att, maxatt) == att <= maxatt

\* line 99
MoreAttempts(att, maxatt) == att < maxatt

\* line 102
IsCorrect(guess, sec) == guess = sec

\* the two hints exchanged
HintSwapped(guess, sec) == IF guess < sec THEN "lower" ELSE "higher"

\* lines 106-109
Hint(guess, sec) == IF guess < sec THEN "higher" ELSE "lower"

\* the two thresholds compared with < instead of <=
ClosenessStrict(diff, lo, hi) ==
    IF diff = 0 THEN ""
    ELSE IF diff < Max(1, (hi - lo) \div 20) THEN " (very close!)"
    ELSE IF diff < Max(1, (hi - lo) \div 5) THEN " (close)"
    ELSE ""

\* thresholds of half the width and the whole width: no distance is left
\* without a qualifier
ClosenessOfWidth(diff, lo, hi) ==
    IF diff = 0 THEN ""
    ELSE IF diff <= Max(1, (hi - lo) \div 2) THEN " (very close!)"
    ELSE IF diff <= Max(1, hi - lo) THEN " (close)"
    ELSE ""

\* lines 111-118; // is floor division
Closeness(diff, lo, hi) ==
    IF diff = 0 THEN ""
    ELSE IF diff <= Max(1, (hi - lo) \div 20) THEN " (very close!)"
    ELSE IF diff <= Max(1, (hi - lo) \div 5) THEN " (close)"
    ELSE ""

Nope(guess, sec, lo, hi) ==
    <<"Nope - try", Hint(guess, sec), Closeness(Abs(sec - guess), lo, hi)>>

Picked        == <<"I've picked a number">>
Correct       == <<"Correct!">>
OutOfAttempts == <<"Out of attempts!">>
Anon          == <<"A", "n", "o", "n">>

\* elapsed times time.time() - start, in 1/128 s
TimeVals == {0, 3}

\* what is typed at the leaderboard name prompt
NameTexts == {<<>>, <<" ">>, <<" ", "z">>}

\* scores.json when the round starts
OldRecord ==
    [name |-> <<"o">>, attempts |-> 3, time_taken |-> 150,
     difficulty |-> "Easy", timestamp |-> 0]
RoundInitFiles ==
    {AbsentFile, JsonFile(ListVal(<<OldRecord>>)), JsonFile(OtherVal("falsy"))}

\* what play_round leaves alone outside its own variables and the file
storeIdleVars == <<nA, nB, file0, fileBefore, last, loaded, raceVars, player,
                   mainChoice, nPlay>>

\* play_round(name) is called; choose_difficulty has printed its menu
InitRound ==
    /\ pc = "menu"
    /\ name \in {<<>>, <<"a">>}
    /\ file \in RoundInitFiles
    /\ file0 = file
    /\ now = 0
    /\ StoreIdle
    /\ out = <<>> /\ err = ""
    /\ choice = <<>>
    /\ difficulty = "" /\ low = 0 /\ high = 0 /\ max_attempts = 0
    /\ secret = 0 /\ attempts = 0 /\ guessed = FALSE /\ time_taken = 0
    /\ outcome = "" /\ nGuess = 0 /\ anyHit = FALSE /\ hist = <<>>
    /\ AskIdle /\ RaceIdle /\ MainIdle

\* lines 73-80, 88: a line typed at "Enter 1/2/3/4: "
ChooseMenuOn(typed) ==
    /\ pc = "menu"
    /\ \E text \in typed :
          LET c == Stripped[text] IN
          /\ choice' = c
          /\ IF c \in PresetChoices
             THEN /\ difficulty' = Preset(c).difficulty
                  /\ low' = Preset(c).low
                  /\ high' = Preset(c).high
                  /\ max_attempts' = Preset(c).max_attempts
                  /\ pc' = "init"
                  /\ out' = <<>>
             ELSE IF c = <<"4">>
             THEN /\ pc' = "low"
                  /\ out' = <<>>
                  /\ UNCHANGED <<difficulty, low, high, max_attempts>>
             ELSE /\ pc' = "menu"
                  /\ out' = InvalidChoice
                  /\ UNCHANGED <<difficulty, low, high, max_attempts>>
    /\ UNCHANGED <<file, now, err, name, secret, attempts, guessed, time_taken,
                   outcome, nGuess, anyHit, storeIdleVars, askVars, hist>>

ChooseMenu == ChooseMenuOn(Texts)

\* ask_int printed a message and loops: the same prompt again
AskAgain(r) ==
    /\ r.kind = "reprompt"
    /\ out' = r.msg
    /\ UNCHANGED <<pc, err>>

\* int() raised inside ask_int: nothing catches it
AskRaised(r) ==
    /\ r.kind = "raise"
    /\ pc' = "crashed"
    /\ err' = "ValueError"
    /\ out' = <<>>

\* line 81: a line typed at "Enter lower bound (integer): "
AskLowOn(typed) ==
    /\ pc = "low"
    /\ \E text \in typed :
          LET r == AskIntStep(text, {}, {}) IN
          IF r.kind = "return"
          THEN /\ Abs(r.n) <= MaxCustomBound
               /\ low' = r.n
               /\ pc' = "high"
               /\ out' = <<>>
               /\ UNCHANGED err
          ELSE /\ (AskAgain(r) \/ AskRaised(r))
               /\ UNCHANGED low
    /\ UNCHANGED <<file, now, name, choice, difficulty, high, max_attempts,
                   secret, attempts, guessed, time_taken, outcome, nGuess,
                   anyHit, storeIdleVars, askVars, hist>>

AskLow == AskLowOn(Texts)

\* lines 82-85: a line typed at "Enter upper bound (integer, > lower): "
AskHighOn(typed) ==
    /\ pc = "high"
    /\ \E text \in typed :
          LET r == AskIntStep(text, {}, {}) IN
          IF r.kind = "return"
          THEN /\ Abs(r.n) <= MaxCustomBound
               /\ high' = r.n
               /\ IF BadRange(low, r.n)
                  THEN pc' = AfterBadRange /\ out' = UpperMustBeGreater
                  ELSE pc' = "maxatt" /\ out' = <<>>
               /\ UNCHANGED err
          ELSE /\ (AskAgain(r) \/ AskRaised(r))
               /\ UNCHANGED high
    /\ UNCHANGED <<file, now, name, choice, difficulty, low, max_attempts,
                   secret, attempts, guessed, time_taken, outcome, nGuess,
                   anyHit, storeIdleVars, askVars, hist>>

AskHigh == AskHighOn(Texts)

\* lines 86-87: a line typed at "Enter max attempts (>=1): "
AskMaxAttemptsOn(typed) ==
    /\ pc = "maxatt"
    /\ \E text \in typed :
          LET r == AskIntStep(text, {1}, {}) IN
          IF r.kind = "return"
          THEN /\ r.n <= MaxCustomAttempts
               /\ max_attempts' = r.n
               /\ difficulty' = "Custom"
               /\ pc' = "init"
               /\ out' = <<>>
               /\ UNCHANGED err
          ELSE /\ (AskAgain(r) \/ AskRaised(r))
               /\ UNCHANGED <<max_attempts, difficulty>>
    /\ UNCHANGED <<file, now, name, choice, low, high,
                   secret, attempts, guessed, time_taken, outcome, nGuess,
                   anyHit, storeIdleVars, askVars, hist>>

AskMaxAttempts == AskMaxAttemptsOn(Texts)

\* a draw that can exceed the upper bound by one
RandIntBeyond(lo, hi) == lo..(hi + 1)

\* what random.randint(lo, hi) can return: both ends included
RandInt(lo, hi) == lo..hi

\* lines 92-97: the secret is drawn
StartRound ==
    /\ pc = "init"
    /\ secret' \in RandInt(low, high)
    /\ attempts' = 0
    /\ guessed' = FALSE
    /\ out' = Picked
    /\ pc' = "loop"
    /\ UNCHANGED <<file, now, err, name, choice, difficulty, low, high,
                   max_attempts, time_taken, outcome, nGuess, anyHit,
                   storeIdleVars, askVars, hist>>

\* lines 99-100: the while test and the increment
LoopTest ==
    /\ pc = "loop"
    /\ IF MoreAttempts(attempts, max_attempts)
       THEN attempts' = attempts + 1 /\ pc' = "guess"
       ELSE attempts' = attempts /\ pc' = "finish"
    /\ out' = <<>>
    /\ UNCHANGED <<file, now, err, name, choice, difficulty, low, high,
                   max_attempts, secret, guessed, time_taken, outcome, nGuess,
                   anyHit, storeIdleVars, askVars, hist>>

\* a wrong guess followed by the guess prompt at once, the while test and
\* the increment skipped
AfterWrongStay == "guess"

\* after line 120 the loop goes back to its test, line 99
AfterWrong == "loop"

\* lines 101-120 on the line typed at "[Attempt a/m] Your guess: "
GuessText(text) ==
    LET r == AskIntStep(text, {low}, {high}) IN
    IF r.kind = "return"
    THEN /\ nGuess' = nGuess + 1
         /\ anyHit' = (anyHit \/ r.n = secret)
         /\ IF IsCorrect(r.n, secret)
            THEN guessed' = TRUE /\ pc' = "finish" /\ out' = <<>>
            ELSE guessed' = guessed /\ pc' = AfterWrong
                 /\ out' = Nope(r.n, secret, low, high)
         /\ UNCHANGED err
    ELSE /\ (AskAgain(r) \/ AskRaised(r))
         /\ UNCHANGED <<nGuess, anyHit, guessed>>

\* lines 101-120: a line is typed at the guess prompt
GuessOn(typed) ==
    /\ pc = "guess"
    /\ \E text \in typed : GuessText(text)
    /\ UNCHANGED <<file, now, name, choice, difficulty, low, high,
                   max_attempts, secret, attempts, time_taken, outcome,
                   storeIdleVars, askVars, hist>>

Guess == GuessOn(Texts)

\* the texts typed at the guess prompt of a round that is followed guess by
\* guess
TracedTexts ==
    { <<>>, <<"a">>, <<"sup2">>, <<"-", "1">>, <<"0">>, <<"1">>, <<"5">>,
      <<"7">>, <<"9">> }

\* the guess ask_int returned on this line, if it returned, with what line
\* 119 printed in answer (nothing for the correct guess)
Traced(text, said) ==
    LET r == AskIntStep(text, {low}, {high}) IN
    IF r.kind = "return"
    THEN Append(hist, [guess |-> r.n, said |-> said])
    ELSE hist

\* lines 101-120, the round followed guess by guess
GuessTraced ==
    /\ pc = "guess"
    /\ \E text \in TracedTexts :
          /\ GuessText(text)
          /\ hist' = Traced(text, out')
    /\ UNCHANGED <<file, now, name, choice, difficulty, low, high,
                   max_attempts, secret, attempts, time_taken, outcome,
                   storeIdleVars, askVars>>

\* line 128: save_score(name, attempts, time_taken, difficulty); the clock
\* may have reached the next second
RoundSave(nm, t) ==
    \E dt \in 0..1 :
       LET r == save_score(file, nm, attempts, t, difficulty, now + dt) IN
       /\ file' = r.file
       /\ now' = now + dt
       /\ err' = r.err
       /\ pc' = IF r.err = "" THEN "done" ELSE "crashed"

\* lines 122-132, up to the name prompt when there is one
Finish ==
    /\ pc = "finish"
    /\ \E t \in TimeVals :
          /\ time_taken' = t
          /\ IF guessed
             THEN /\ outcome' = "WON"
                  /\ out' = Correct
                  /\ IF name = <<>>
                     THEN pc' = "name" /\ UNCHANGED <<file, now, err>>
                     ELSE RoundSave(name, t)
             ELSE /\ outcome' = "LOST"
                  /\ out' = OutOfAttempts
                  /\ pc' = "done"
                  /\ UNCHANGED <<file, now, err>>
    /\ UNCHANGED <<name, choice, difficulty, low, high, max_attempts, secret,
                   attempts, guessed, nGuess, anyHit, storeIdleVars, askVars, hist>>

\* lines 127-132: a line typed at the leaderboard name prompt
NamePrompt ==
    /\ pc = "name"
    /\ \E text \in NameTexts :
          /\ name' = IF Strip(text) = <<>> THEN Anon ELSE Strip(text)
          /\ RoundSave(name', time_taken)
    /\ out' = <<>>
    /\ UNCHANGED <<choice, difficulty, low, high, max_attempts, secret,
                   attempts, guessed, time_taken, outcome, nGuess, anyHit,
                   storeIdleVars, askVars, hist>>

NextRound ==
    \/ ChooseMenu \/ AskLow \/ AskHigh \/ AskMaxAttempts
    \/ StartRound \/ LoopTest \/ Guess \/ Finish \/ NamePrompt

SpecRound == InitRound /\ [][NextRound]_vars

\* the user types an integer of [low, high] at the guess prompt
ValidGuess == Guess /\ nGuess' = nGuess + 1

\* play_round with a program that keeps running and a user who, asked for
\* a guess, sooner or later types an integer of [low, high], and who
\* answers the name prompt
SpecRoundFair ==
    /\ SpecRound
    /\ WF_vars(StartRound) /\ WF_vars(LoopTest) /\ WF_vars(Finish)
    /\ WF_vars(ValidGuess) /\ WF_vars(NamePrompt)

\* -------------------------------------- SpecGuess: one round, guess by guess

\* what choose_difficulty returned: Easy, or a Custom range and budget
RoundParams ==
    { [choice |-> <<"1">>, difficulty |-> "Easy",   low |-> 1,  high |-> 10,  max_attempts |-> 6],
      [choice |-> <<"4">>, difficulty |-> "Custom", low |-> 1,  high |-> 50,  max_attempts |-> 2],
      [choice |-> <<"4">>, difficulty |-> "Custom", low |-> 0,  high |-> 100, max_attempts |-> 2],
      [choice |-> <<"4">>, difficulty |-> "Custom", low |-> 1,  high |-> 5,   max_attempts |-> 3],
      [choice |-> <<"4">>, difficulty |-> "Custom", low |-> -1, high |-> 1,   max_attempts |-> 2],
      [choice |-> <<"4">>, difficulty |-> "Custom", low |-> 0,  high |-> 1,   max_attempts |-> 2],
      [choice |-> <<"4">>, difficulty |-> "Custom", low |-> 0,  high |-> 5,   max_attempts |-> 2] }

\* play_round("a") is at line 92: choose_difficulty has returned
InitGuess ==
    /\ pc = "init"
    /\ name = <<"a">>
    /\ \E p \in RoundParams :
          /\ choice = p.choice /\ difficulty = p.difficulty
          /\ low = p.low /\ high = p.high /\ max_attempts = p.max_attempts
    /\ file = AbsentFile
    /\ file0 = file
    /\ now = 0
    /\ StoreIdle
    /\ out = <<>> /\ err = ""
    /\ secret = 0 /\ attempts = 0 /\ guessed = FALSE /\ time_taken = 0
    /\ outcome = "" /\ nGuess = 0 /\ anyHit = FALSE /\ hist = <<>>
    /\ AskIdle /\ RaceIdle /\ MainIdle

NextGuess == StartRound \/ LoopTest \/ GuessTraced \/ Finish

SpecGuess == InitGuess /\ [][NextGuess]_vars

\* ------------------------------------------------- SpecRound: the claims

\* C7: for the menu choices 1, 2 and 3 choose_difficulty returns exactly
\* (Easy, 1, 10, 6), (Medium, 1, 50, 7) and (Hard, 1, 100, 8), at once and
\* whatever was entered before.
C7_PresetTable ==
    /\ choice = <<"1">> => <<difficulty, low, high, max_attempts>> = <<"Easy", 1, 10, 6>>
    /\ choice = <<"2">> => <<difficulty, low, high, max_attempts>> = <<"Medium", 1, 50, 7>>
    /\ choice = <<"3">> => <<difficulty, low, high, max_attempts>> = <<"Hard", 1, 100, 8>>

\* Medium has just been returned
C7_Witness ==
    /\ pc = "init"
    /\ choice = <<"2">>
    /\ difficulty = "Medium" /\ high = 50

\* C8: every tuple returned with the label Custom has low < high and
\* max_attempts >= 1.
C8_CustomValid ==
    difficulty = "Custom" => (low < high /\ max_attempts >= 1)

\* a Custom range below zero with the smallest budget has been returned
C8_Witness ==
    /\ pc = "init"
    /\ difficulty = "Custom"
    /\ low < 0 /\ high <= 0 /\ max_attempts = 1

\* the step in which ask_int returns an upper bound that is <= low
PairRejected ==
    /\ pc = "high"
    /\ pc' \notin {"high", "crashed"}
    /\ high' <= low

\* C9 as stated: after a rejected pair the next input asked for is the
\* lower bound, not the menu choice.
C9_AsStated == [][PairRejected => pc' = "low"]_vars

\* C9 amended: after a rejected pair the selector prints the message and
\* asks for the menu choice again; the lower bound is asked for only on the
\* menu choice 4 (and then the upper bound); any other invalid menu entry
\* asks for the menu choice again.
C9_RejectedPairBackToMenu ==
    [][/\ PairRejected => (pc' = "menu" /\ out' = UpperMustBeGreater)
       /\ (pc' = "low" /\ pc # "low") => (pc = "menu" /\ choice' = <<"4">>)
       /\ (pc' = "high" /\ pc # "high") => pc = "low"
       /\ (pc = "menu" /\ choice' \notin (PresetChoices \cup {<<"4">>}))
             => (pc' = "menu" /\ out' = InvalidChoice)
      ]_vars

\* a pair has just been rejected
C9_Witness ==
    /\ pc = "menu"
    /\ out = UpperMustBeGreater
    /\ choice = <<"4">>
    /\ high <= low

\* C10: the round ends WON iff one of its at most max_attempts guesses
\* equalled the secret, LOST iff max_attempts guesses were made and none
\* did; no guess is asked for after a correct one, after the budget is used
\* up, or after WON or LOST, and WON and LOST do not change.
C10_WonLost ==
    /\ [](/\ outcome = "WON" => (anyHit /\ nGuess <= max_attempts)
          /\ outcome = "LOST" => (~anyHit /\ nGuess = max_attempts)
          /\ pc = "done" => outcome \in {"WON", "LOST"}
          /\ anyHit => pc \in {"finish", "name", "done", "crashed"}
          /\ (anyHit /\ pc \in {"name", "done", "crashed"}) => outcome = "WON"
          /\ (difficulty # "" /\ nGuess = max_attempts) => pc # "guess"
          /\ outcome # "" => pc \in {"name", "done", "crashed"})
    /\ [][outcome # "" => outcome' = outcome]_vars

\* a Hard round won on the last allowed attempt
C10_Witness ==
    /\ pc = "done"
    /\ outcome = "WON"
    /\ max_attempts = 8 /\ nGuess = 8

\* ------------------------------------------------- SpecStore: the claims

SavedIds == ({"A"} \X (1..nA)) \cup ({"B"} \X (1..nB))
CallOf(x) == IF x[1] = "A" THEN CallA(x[2]) ELSE CallB(x[2])

\* the store behaved as empty before the first call
StartedEmpty == file0 \in {AbsentFile, CorruptFile, JsonFile(ListVal(<<>>))}

FileIsList == file.kind = "json" /\ file.val.type = "list"

\* ascending (attempts, time_taken), stored records
InOrder(a, b) ==
    \/ a.attempts < b.attempts
    \/ a.attempts = b.attempts /\ a.time_taken <= b.time_taken

Ascending(s) == \A k \in 1..(Len(s) - 1) : InOrder(s[k], s[k + 1])

\* C1: after every save_score call that found a list (or nothing) in the
\* file, the file holds at most 20 records in ascending order of
\* (attempts, time_taken), whatever it held before.
C1_SaveLeavesSortedBounded ==
    (last = "save" /\ err = "") =>
        /\ FileIsList
        /\ Len(file.val.items) <= 20
        /\ Ascending(file.val.items)

\* a save has just cut and sorted the hand-written list of more than 20
C1_Witness ==
    /\ last = "save" /\ err = ""
    /\ file0 = JsonFile(ListVal(OldList))
    /\ ~Ascending(OldList) /\ Len(OldList) > 20
    /\ nA + nB = 1

\* keys as passed to save_score / as stored
PassedLess(c, d) ==
    \/ c.attempts < d.attempts
    \/ c.attempts = d.attempts /\ c.time_taken < d.time_taken
RoundedLess(c, d) ==
    \/ c.attempts < d.attempts
    \/ c.attempts = d.attempts /\ Round2(c.time_taken) < Round2(d.time_taken)

PassedDistinct ==
    \A x, y \in SavedIds :
        x # y => PassedLess(CallOf(x), CallOf(y)) \/ PassedLess(CallOf(y), CallOf(x))
RoundedDistinct ==
    \A x, y \in SavedIds :
        x # y => RoundedLess(CallOf(x), CallOf(y)) \/ RoundedLess(CallOf(y), CallOf(x))

\* the saved calls with fewer than 20 saved calls before them
BestPassed ==
    {x \in SavedIds :
        Cardinality({y \in SavedIds : PassedLess(CallOf(y), CallOf(x))}) < 20}
BestRounded ==
    {x \in SavedIds :
        Cardinality({y \in SavedIds : RoundedLess(CallOf(y), CallOf(x))}) < 20}

\* a call as the record it is stored as, timestamp aside
Stored(c) ==
    [name |-> c.name, attempts |-> c.attempts,
     time_taken |-> Round2(c.time_taken), difficulty |-> c.difficulty]
Fields(r) ==
    [name |-> r.name, attempts |-> r.attempts,
     time_taken |-> r.time_taken, difficulty |-> r.difficulty]

\* the store (what load_scores finds in the file) holds the records of
\* exactly the calls S, each once per call
StoreHolds(S) ==
    LET store == load_scores(file) IN
    /\ store.type = "list"
    /\ Len(store.items) = Cardinality(S)
    /\ \A x \in S :
          Cardinality({k \in 1..Len(store.items) :
                          Fields(store.items[k]) = Stored(CallOf(x))})
          = Cardinality({y \in S : Stored(CallOf(y)) = Stored(CallOf(x))})

\* C2 as stated: from an empty store, after saves whose passed
\* (attempts, time_taken) keys are pairwise distinct, the store holds
\* exactly the min(n, 20) saved records with the smallest passed keys.
C2_AsStated == (StartedEmpty /\ PassedDistinct) => StoreHolds(BestPassed)

\* C2 amended: from an empty store, after saves whose keys
\* (attempts, time_taken rounded to 2 decimals) are pairwise distinct, the
\* store holds exactly the min(n, 20) saved records with the smallest such
\* keys, whatever the order of the saves.
C2_KeepsSmallestRounded == (StartedEmpty /\ RoundedDistinct) => StoreHolds(BestRounded)

\* more than 20 saves with distinct rounded keys, the worst of them saved
\* first and since pushed out
C2_Witness ==
    /\ StartedEmpty /\ RoundedDistinct
    /\ nA + nB > 20 /\ nB = LenB
    /\ last = "save"
    /\ Len(file.val.items) = 20

\* the time 1/100 s h is the passed time t/128 s itself / its nearest 1/100 s
SameTime(h, t)    == 128 * h = 100 * t
NearestTime(h, t) == Abs(100 * t - 128 * h) <= 64

\* what load_scores returned is the saved calls, each once, in order
RoundTrip(TimeOk(_, _)) ==
    /\ loaded.type = "list"
    /\ Len(loaded.items) = Cardinality(SavedIds)
    /\ \A x \in SavedIds :
          Cardinality({k \in 1..Len(loaded.items) :
                          /\ loaded.items[k].name = CallOf(x).name
                          /\ loaded.items[k].attempts = CallOf(x).attempts
                          /\ loaded.items[k].difficulty = CallOf(x).difficulty
                          /\ TimeOk(loaded.items[k].time_taken, CallOf(x).time_taken)})
          = Cardinality({y \in SavedIds : CallOf(y) = CallOf(x)})
    /\ Ascending(loaded.items)

\* C3 as stated: from an empty store, N <= 20 saves and then load_scores
\* give back exactly those N records, each field (time_taken too) equal to
\* what was passed, in ascending order.
C3_AsStated ==
    (StartedEmpty /\ nA + nB <= 20 /\ last = "load") => RoundTrip(SameTime)

\* C3 amended: ... each with the name, attempts and difficulty passed and
\* with time_taken equal to the passed time rounded to 2 decimals, in
\* ascending (attempts, rounded time_taken) order.
C3_RoundTripRounded ==
    (StartedEmpty /\ nA + nB <= 20 /\ last = "load") => RoundTrip(NearestTime)

\* 20 saves loaded back, one of them with a time that rounding changes
C3_Witness ==
    /\ StartedEmpty /\ last = "load"
    /\ nA + nB = 20 /\ nA = LenA
    /\ \E x \in SavedIds : ~SameTime(Round2(CallOf(x).time_taken), CallOf(x).time_taken)

\* C4: while the file is absent or cannot be parsed, load_scores returns
\* the empty list, show_leaderboard prints the no-leaderboard message, none
\* raises, and a save_score leaves exactly the one new record.
C4_FailsOpen ==
    (file0.kind \in {"absent", "corrupt"}) =>
        /\ (nA + nB = 0 /\ last = "load") => (loaded = ListVal(<<>>) /\ err = "")
        /\ (nA + nB = 0 /\ last = "show") => (out = NoLeaderboard /\ err = "")
        /\ (nA + nB = 1 /\ last = "save") =>
              /\ err = ""
              /\ FileIsList
              /\ Len(file.val.items) = 1
              /\ \A x \in SavedIds :
                    /\ Fields(file.val.items[1]) = Stored(CallOf(x))
                    /\ file.val.items[1].timestamp = now

\* the first save over a file that cannot be parsed
C4_Witness ==
    /\ file0 = CorruptFile
    /\ nA + nB = 1 /\ last = "save"
    /\ FileIsList

\* ----------------------------------------- SpecRound: the later claims

\* a sequence without its k-th element
DropAt(s, k) == SubSeq(s, 1, k - 1) \o SubSeq(s, k + 1, Len(s))

\* the file holds what it held when the round began and one record more,
\* that of this round
OneRecordMore ==
    /\ FileIsList
    /\ load_scores(file0).type = "list"
    /\ Len(file.val.items) = Len(load_scores(file0).items) + 1
    /\ \E k \in 1..Len(file.val.items) :
          /\ DropAt(file.val.items, k) = load_scores(file0).items
          /\ file.val.items[k].name = name
          /\ file.val.items[k].attempts = nGuess
          /\ file.val.items[k].difficulty = difficulty

\* C11: a round that ends WON has added exactly one record to the store,
\* a round that ends LOST has left the file as it was; the file changes at
\* no other time and only once; the record's attempts is the number of
\* guesses made, the winning one included, between 1 and max_attempts, and
\* its difficulty is the selector's label.  (A save_score that finds a JSON
\* value other than a list raises and play_round does not return.)
C11_OneAppendOnWin ==
    /\ [](/\ (pc = "done" /\ outcome = "WON") =>
                (OneRecordMore /\ 1 <= nGuess /\ nGuess <= max_attempts)
          /\ (pc = "done" /\ outcome = "LOST") => file = file0
          /\ file # file0 => (pc = "done" /\ outcome = "WON")
          /\ (pc = "crashed" /\ outcome = "WON") =>
                (file = file0 /\ load_scores(file0).type # "list"))
    /\ [][file' # file => (file = file0 /\ outcome' = "WON" /\ pc' = "done")]_vars

\* a Medium round won at the third guess, recorded next to an older record
C11_Witness ==
    /\ pc = "done" /\ outcome = "WON"
    /\ file0 = JsonFile(ListVal(<<OldRecord>>))
    /\ difficulty = "Medium" /\ nGuess = 3
    /\ Len(file.val.items) = 2

\* ------------------------------------------------ SpecGuess: the claims

\* the answers of line 119 to the guesses made so far
Guesses   == [k \in 1..Len(hist) |-> hist[k].guess]
Said(k)   == hist[k].said
Wrong(k)  == hist[k].guess # secret
Dist(k)   == Abs(secret - hist[k].guess)
HintAt(k) == IF Said(k) = <<>> THEN "" ELSE Said(k)[2]
QualAt(k) == IF Said(k) = <<>> THEN "" ELSE Said(k)[3]

\* the scenario of the specification: range [1, 10], secret 7, budget 6,
\* guesses 1, 5, 9, 7
Scenario ==
    /\ low = 1 /\ high = 10 /\ max_attempts = 6 /\ secret = 7
    /\ Guesses = <<1, 5, 9, 7>>

\* C12: to every wrong guess the hint printed is "higher" exactly when
\* guess < secret and "lower" exactly when guess > secret; nothing is
\* printed in answer to the correct guess; after the guesses 1, 5, 9, 7 for
\* the secret 7 in [1, 10] with budget 6, the hints were higher, higher,
\* lower and the round is won with attempts = 4.
C12_Hints ==
    /\ \A k \in 1..Len(hist) :
          /\ (HintAt(k) = "higher") <=> (hist[k].guess < secret)
          /\ (HintAt(k) = "lower") <=> (hist[k].guess > secret)
          /\ (hist[k].guess = secret) <=> (Said(k) = <<>>)
    /\ Scenario =>
          /\ <<HintAt(1), HintAt(2), HintAt(3), HintAt(4)>>
                = <<"higher", "higher", "lower", "">>
          /\ attempts = 4 /\ guessed
          /\ pc \in {"finish", "done"}
          /\ pc = "done" => outcome = "WON"

\* the scenario has been played to its end
C12_Witness ==
    /\ Scenario
    /\ pc = "done" /\ outcome = "WON" /\ attempts = 4

\* max(1, W div n) for the width W = high - low, div rounding down
Threshold(n) ==
    LET w == (high - low) \div n IN IF w > 1 THEN w ELSE 1

\* C13: for every wrong guess at distance d from the secret the qualifier
\* is "very close" iff d <= max(1, W div 20), "close" iff
\* max(1, W div 20) < d <= max(1, W div 5), and there is none otherwise.
C13_Closeness ==
    \A k \in 1..Len(hist) :
        Wrong(k) =>
            /\ (QualAt(k) = " (very close!)") <=> (Dist(k) <= Threshold(20))
            /\ (QualAt(k) = " (close)") <=>
                  (Threshold(20) < Dist(k) /\ Dist(k) <= Threshold(5))
            /\ (QualAt(k) = "") <=> (Dist(k) > Threshold(5))
            /\ QualAt(k) \in {" (very close!)", " (close)", ""}

\* range [1, 50] (thresholds 2 and 9), secret 3: the guess 5, at distance
\* 2, was called very close and the guess 9, at distance 6, close
C13_Witness ==
    /\ low = 1 /\ high = 50 /\ secret = 3
    /\ \E k \in 1..Len(hist) :
          hist[k].guess = 5 /\ Dist(k) = Threshold(20) /\ QualAt(k) = " (very close!)"
    /\ \E k \in 1..Len(hist) :
          hist[k].guess = 9 /\ Dist(k) > Threshold(20) /\ QualAt(k) = " (close)"

\* C15: 0 <= attempts <= max_attempts; attempts is the number of guesses
\* ask_int has returned, plus one while the guess of the current iteration
\* is awaited; it changes only by the +1 of a new iteration, never on a
\* re-prompt; the secret and every guess compared with it lie in
\* [low, high].
C15_AttemptsAndRange ==
    /\ [](/\ 0 <= attempts /\ attempts <= max_attempts
          /\ attempts = Len(hist) + (IF pc \in {"guess", "crashed"} THEN 1 ELSE 0)
          /\ Len(hist) = nGuess
          /\ pc # "init" => (low <= secret /\ secret <= high)
          /\ \A k \in 1..Len(hist) :
                low <= hist[k].guess /\ hist[k].guess <= high)
    /\ [][/\ attempts' # attempts =>
                (attempts' = attempts + 1 /\ pc = "loop" /\ pc' = "guess")
          /\ (pc = "guess" /\ pc' = "guess") =>
                (attempts' = attempts /\ hist' = hist /\ out' # <<>>)
          /\ (pc = "guess" /\ pc' \in {"loop", "finish"}) =>
                (Len(hist') = Len(hist) + 1 /\ attempts' = attempts)
         ]_vars

\* the whole budget of an Easy round used, the guess prompt repeated for
\* an entry out of range in between
C15_Witness ==
    /\ difficulty = "Easy" /\ attempts = 6 /\ Len(hist) = 6
    /\ pc = "loop"
    /\ secret = 10

\* every wrong guess so far got a qualifier
AllQualified == \A k \in 1..Len(hist) : Wrong(k) => QualAt(k) # ""

\* C17 as stated: in a range of width W < 5 every wrong guess gets a
\* qualifier.
C17_AsStated == (high - low < 5) => AllQualified

\* C17 amended: in a range of width W < 5 both thresholds are 1: a wrong
\* guess is called very close iff its distance is 1 and gets no qualifier
\* at distance 2 or more, "close" is never printed; every wrong guess gets
\* a qualifier only when W = 1.
C17_NarrowRange ==
    (high - low < 5) =>
        /\ \A k \in 1..Len(hist) :
              Wrong(k) =>
                 /\ (QualAt(k) = " (very close!)") <=> (Dist(k) = 1)
                 /\ (QualAt(k) = "") <=> (Dist(k) >= 2)
        /\ (high - low = 1) => AllQualified

\* width 4: the guess 5 for the secret 1 got the bare hint, the guess 1
\* for the secret 2 would be very close
C17_Witness ==
    /\ low = 1 /\ high = 5 /\ secret = 1
    /\ \E k \in 1..Len(hist) : Dist(k) = 4 /\ QualAt(k) = "" /\ HintAt(k) = "lower"

\* ----------------------------------------- SpecStore: the later claims

\* the save_score call made in this step and the record it appends
SaveStep == last' = "save" /\ err' = "" /\ (nA' # nA \/ nB' # nB)
NewCall  == IF nA' # nA THEN CallA(nA') ELSE CallB(nB')
NewRec   ==
    [name |-> NewCall.name, attempts |-> NewCall.attempts,
     time_taken |-> Round2(NewCall.time_taken),
     difficulty |-> NewCall.difficulty, timestamp |-> now']
SameKey(a, b) == a.attempts = b.attempts /\ a.time_taken = b.time_taken

\* the records of s whose key is not greater than r's: r goes after them
NotAfter(s, r) == Cardinality({k \in 1..Len(s) : InOrder(s[k], r)})

\* C19: a save into a store in ascending order leaves the old records in
\* the order they had and puts the new record after every old record whose
\* key is not greater, those of equal key included, before the cut to 20;
\* so when the store holds 20 records and the new record's key equals the
\* key of the 20th, the save leaves the store as it was.
C19_TiesKeepOlder ==
    [][(SaveStep /\ FileIsList /\ Ascending(file.val.items)) =>
          LET old == file.val.items
              k   == NotAfter(old, NewRec)
              all == SubSeq(old, 1, k) \o <<NewRec>> \o SubSeq(old, k + 1, Len(old))
          IN  /\ file'.kind = "json" /\ file'.val.type = "list"
              /\ file'.val.items = SubSeq(all, 1, Min(20, Len(all)))
              /\ (Len(old) = 20 /\ SameKey(old[20], NewRec)) =>
                    file'.val.items = old
      ]_vars

\* the store held 20 records, the 20th that of player "b" with 10 attempts
\* and 0.02 s; the last call of player "a", with the same key, came last
\* and left the file as it was
C19_Witness ==
    /\ last = "save" /\ err = ""
    /\ nA = LenA /\ nB = LenB
    /\ FileIsList /\ fileBefore = file
    /\ Len(file.val.items) = 20
    /\ file.val.items[20].name = <<"b">>
    /\ file.val.items[20].attempts = CallA(LenA).attempts
    /\ file.val.items[20].time_taken = Round2(CallA(LenA).time_taken)

\* ------------------------------ SpecRace: two processes calling save_score

\* scores.json when the two processes start
RaceInitFiles == {AbsentFile, JsonFile(ListVal(<<OldRecord>>))}

\* the other process
Other(p) == CHOOSE q \in Procs : q # p

\* calls completed by process p, and its next call
Done(p)     == IF p = "A" THEN nA ELSE nB
NextCall(p) == IF p = "A" THEN CallA(nA + 1) ELSE CallB(nB + 1)

InitRace ==
    /\ file \in RaceInitFiles
    /\ file0 = file
    /\ now = 1
    /\ StoreIdle
    /\ RaceIdle /\ MainIdle
    /\ out = <<>> /\ err = ""
    /\ AskIdle /\ RoundIdle

\* line 27: process p reads the file into its scores
RaceRead(p) ==
    /\ rpc[p] = "idle"
    /\ Done(p) < RaceSaves
    /\ scores' = [scores EXCEPT ![p] = ReadScores(file)]
    /\ rpc' = [rpc EXCEPT ![p] = "loaded"]
    /\ overlap' = (overlap \/ rpc[Other(p)] # "idle")
    /\ UNCHANGED <<file, now, nA, nB, file0, fileBefore, last, loaded, out,
                   err, askVars, roundVars, mainVars>>

\* line 37: open(SCORES_FILE, "w") empties the file; until json.dump is
\* through, what it holds does not parse
RaceOpen(p) ==
    /\ rpc[p] = "loaded"
    /\ rpc' = [rpc EXCEPT ![p] = "writing"]
    /\ file' = CorruptFile
    /\ fileBefore' = file
    /\ UNCHANGED <<now, nA, nB, file0, last, loaded, out, err, scores,
                   overlap, askVars, roundVars, mainVars>>

\* lines 28-36 and 38: process p has written its list, the new record in it
RaceDump(p) ==
    /\ rpc[p] = "writing"
    /\ LET c == NextCall(p)
           r == SaveLoaded(scores[p], file, c.name, c.attempts, c.time_taken,
                           c.difficulty, now)
       IN  /\ file' = r.file
           /\ err' = r.err
    /\ rpc' = [rpc EXCEPT ![p] = "idle"]
    /\ nA' = IF p = "A" THEN nA + 1 ELSE nA
    /\ nB' = IF p = "B" THEN nB + 1 ELSE nB
    /\ last' = "save"
    /\ UNCHANGED <<now, file0, fileBefore, loaded, out, scores, overlap,
                   askVars, roundVars, mainVars>>

NextRace == \E p \in Procs : RaceRead(p) \/ RaceOpen(p) \/ RaceDump(p)

SpecRace == InitRace /\ [][NextRace]_vars

\* ------------------------------------------------- SpecRace: the claims

\* both processes are outside save_score
Quiet == \A p \in Procs : rpc[p] = "idle"

\* the record of a completed call is in the file
InFile(x) ==
    LET store == load_scores(file) IN
    \E k \in 1..Len(store.items) : Fields(store.items[k]) = Stored(CallOf(x))

\* the completed calls whose record is not in the file
Lost == {x \in SavedIds : ~InFile(x)}

\* C18: with both processes outside save_score, a record of a completed
\* save is missing from the file (fewer than 20 records were ever saved, so
\* each ranks among the best 20) only if the two processes' reads and
\* writes have interleaved; saves run one after the other lose nothing and
\* leave the old records in place.
C18_LostOnlyWhenInterleaved ==
    (Quiet /\ ~overlap) =>
        /\ Lost = {}
        /\ load_scores(file).type = "list"
        /\ Len(load_scores(file).items)
              = Len(load_scores(file0).items) + Cardinality(SavedIds)

\* a lost update: each process has completed one save, both read the file
\* before either wrote, and the record of process A is not in the file
C18_Witness ==
    /\ Quiet /\ overlap
    /\ nA = 1 /\ nB = 1
    /\ Lost = {<<"A", 1>>}
    /\ Cardinality(SavedIds) + Len(load_scores(file0).items) < 20

\* ----------------------------------------------- SpecRoundFair: the claims

\* C16: once choose_difficulty has returned, the round reaches WON or LOST,
\* after at most max_attempts guesses returned by ask_int, provided the user
\* keeps supplying a valid guess in the end (a run in which int() raises on
\* the text typed is not one in which valid input was supplied).
C16_RoundEnds ==
    /\ (pc = "init") ~> (outcome \in {"WON", "LOST"} \/ err = "ValueError")
    /\ [](nGuess <= max_attempts)
    /\ [](outcome \in {"WON", "LOST"} => (1 <= nGuess /\ nGuess <= max_attempts))

\* a Hard round lost after invalid and out-of-range entries and 8 guesses
C16_Witness ==
    /\ outcome = "LOST" /\ difficulty = "Hard"
    /\ nGuess = 8 /\ pc = "done"

\* --------------------------------------------------------- SpecMain: main

MenuShown  == <<"Menu:", "1) Play", "2) Leaderboard", "3) About / Help", "4) Exit">>
ChooseDifficulty == <<"Choose difficulty:">>
About      == <<"About:">>
Goodbye    == <<"Goodbye - thanks for playing!">>

\* no default: an empty entry leaves the player without a name
NoDefault == <<>>

\* line 136: ... or "Player"
PlayerDefault == <<"P", "l", "a", "y", "e", "r">>

\* what is typed at "What's your name?"
PlayerTexts == {<<>>, <<" ">>, <<" ", "A", "n", "o", "n">>}

\* what is typed at "Choose 1/2/3/4: "
MenuTexts == {<<>>, <<"a">>, <<"1">>, <<"2">>, <<"3">>, <<" ", "4">>, <<"5">>}

\* what is typed at the prompts of play_round in a run of main
MainTexts == {<<>>, <<"sup2">>, <<"1">>, <<"4">>}

\* scores.json when main starts
MainInitFiles == {AbsentFile, CorruptFile, JsonFile(ListVal(<<OldRecord>>))}

\* main() is at line 136, the banner printed
InitMain ==
    /\ pc = "start"
    /\ player = <<>> /\ mainChoice = <<>> /\ nPlay = 0
    /\ file \in MainInitFiles
    /\ file0 = file
    /\ now = 0
    /\ StoreIdle
    /\ RaceIdle
    /\ out = <<"=== Number Guessing Game ===">> /\ err = ""
    /\ name = <<>> /\ choice = <<>>
    /\ difficulty = "" /\ low = 0 /\ high = 0 /\ max_attempts = 0
    /\ secret = 0 /\ attempts = 0 /\ guessed = FALSE /\ time_taken = 0
    /\ outcome = "" /\ nGuess = 0 /\ anyHit = FALSE /\ hist = <<>>
    /\ AskIdle

\* the locals of play_round before it is entered and after it has returned
RoundLocalsFresh ==
    /\ choice' = <<>>
    /\ difficulty' = "" /\ low' = 0 /\ high' = 0 /\ max_attempts' = 0
    /\ secret' = 0 /\ attempts' = 0 /\ guessed' = FALSE /\ time_taken' = 0
    /\ outcome' = "" /\ nGuess' = 0 /\ anyHit' = FALSE

\* line 136: a line typed at "What's your name?"; lines 139-143
AskPlayer ==
    /\ pc = "start"
    /\ \E text \in PlayerTexts :
          player' = IF Strip(text) = <<>> THEN PlayerDefault ELSE Strip(text)
    /\ pc' = "mainmenu"
    /\ out' = MenuShown
    /\ UNCHANGED <<file, now, err, mainChoice, nPlay, name, choice, difficulty,
                   low, high, max_attempts, secret, attempts, guessed,
                   time_taken, outcome, nGuess, anyHit, nA, nB, file0,
                   fileBefore, last, loaded, raceVars, askVars, hist>>

\* line 144: a line typed at "Choose 1/2/3/4: " strips to c
MenuChoice(c) ==
    /\ pc = "mainmenu"
    /\ \E text \in MenuTexts : Strip(text) = c
    /\ mainChoice' = c

\* lines 146-147, 90-91, 67-71: play_round(name=player) is entered and
\* choose_difficulty prints its menu
Play ==
    /\ MenuChoice(<<"1">>)
    /\ nPlay < MaxRounds
    /\ nPlay' = nPlay + 1
    /\ name' = player
    /\ RoundLocalsFresh
    /\ pc' = "menu"
    /\ out' = ChooseDifficulty
    /\ UNCHANGED <<file, now, err, player, nA, nB, file0, fileBefore, last,
                   loaded, raceVars, askVars, hist>>

\* lines 148-149, then lines 139-143
ShowBoard ==
    /\ MenuChoice(<<"2">>)
    /\ err' = show_leaderboard(file).err
    /\ IF show_leaderboard(file).err = ""
       THEN pc' = "mainmenu" /\ out' = show_leaderboard(file).out \o MenuShown
       ELSE pc' = "crashed" /\ out' = show_leaderboard(file).out
    /\ UNCHANGED <<file, now, player, nPlay, name, choice, difficulty,
                   low, high, max_attempts, secret, attempts, guessed,
                   time_taken, outcome, nGuess, anyHit, nA, nB, file0,
                   fileBefore, last, loaded, raceVars, askVars, hist>>

\* lines 150-154, then lines 139-143
AboutHelp ==
    /\ MenuChoice(<<"3">>)
    /\ out' = About \o MenuShown
    /\ UNCHANGED <<file, now, err, pc, player, nPlay, name, choice, difficulty,
                   low, high, max_attempts, secret, attempts, guessed,
                   time_taken, outcome, nGuess, anyHit, nA, nB, file0,
                   fileBefore, last, loaded, raceVars, askVars, hist>>

\* lines 155-157: the loop is left and main returns
Exit ==
    /\ MenuChoice(<<"4">>)
    /\ out' = Goodbye
    /\ pc' = "exited"
    /\ UNCHANGED <<file, now, err, player, nPlay, name, choice, difficulty,
                   low, high, max_attempts, secret, attempts, guessed,
                   time_taken, outcome, nGuess, anyHit, nA, nB, file0,
                   fileBefore, last, loaded, raceVars, askVars, hist>>

\* lines 158-159, then lines 139-143
InvalidMenu ==
    /\ pc = "mainmenu"
    /\ \E text \in MenuTexts :
          /\ Strip(text) \notin {<<"1">>, <<"2">>, <<"3">>, <<"4">>}
          /\ mainChoice' = Strip(text)
    /\ out' = InvalidChoice \o MenuShown
    /\ UNCHANGED <<file, now, err, pc, player, nPlay, name, choice, difficulty,
                   low, high, max_attempts, secret, attempts, guessed,
                   time_taken, outcome, nGuess, anyHit, nA, nB, file0,
                   fileBefore, last, loaded, raceVars, askVars, hist>>

\* line 132 and back in main: play_round has returned; lines 139-143
PlayReturns ==
    /\ pc = "done"
    /\ pc' = "mainmenu"
    /\ name' = <<>>
    /\ RoundLocalsFresh
    /\ out' = MenuShown
    /\ UNCHANGED <<file, now, err, player, mainChoice, nPlay, nA, nB, file0,
                   fileBefore, last, loaded, raceVars, askVars, hist>>

\* the prompts of play_round in a run of main
MainChooseMenu     == ChooseMenuOn(MainTexts)
MainAskLow         == AskLowOn(MainTexts)
MainAskHigh        == AskHighOn(MainTexts)
MainAskMaxAttempts == AskMaxAttemptsOn(MainTexts)
MainGuess          == GuessOn(MainTexts)

NextMain ==
    \/ AskPlayer \/ Play \/ ShowBoard \/ AboutHelp \/ Exit \/ InvalidMenu
    \/ MainChooseMenu \/ MainAskLow \/ MainAskHigh \/ MainAskMaxAttempts
    \/ StartRound \/ LoopTest \/ MainGuess \/ Finish \/ PlayReturns

SpecMain == InitMain /\ [][NextMain]_vars

\* ------------------------------------------------- SpecMain: the claims

\* play_round is running
InRound ==
    pc \in {"menu", "low", "high", "maxatt", "init", "loop", "guess",
            "finish", "name", "done"}

\* C14: the menu loop ends only by the choice Exit: the process never ends
\* on an exception, it ends only at the menu prompt on the entry 4, and
\* after a round, the leaderboard, the help text or an invalid entry the
\* menu is shown and asked again.
C14_OnlyExitEnds ==
    /\ [](pc # "crashed" /\ err = "")
    /\ [][/\ pc' = "exited" => (pc = "mainmenu" /\ mainChoice' = <<"4">>)
          /\ (pc = "mainmenu" /\ mainChoice' \notin {<<"1">>, <<"4">>}) =>
                pc' = "mainmenu"
          /\ pc = "done" => pc' = "mainmenu"
          /\ pc = "exited" => pc' = "exited"
         ]_vars

\* the records in the file that were not there when main started
SavedHere ==
    LET store == load_scores(file)
        old   == load_scores(file0)
    IN  {store.items[k] : k \in 1..Len(store.items)}
           \ {old.items[k] : k \in 1..Len(old.items)}

\* the name play_round works with is main's player, not empty, and the
\* name prompt is not shown
NamePassed ==
    /\ pc # "start" => player # <<>>
    /\ InRound => (name = player /\ name # <<>>)
    /\ pc # "name"

\* C20 as stated: ... and every record saved has the player's name, never
\* "Anon".
C20_AsStated ==
    /\ NamePassed
    /\ \A r \in SavedHere : r.name = player /\ r.name # Anon

\* C20 amended: in a run of main the name passed to every round is the
\* entered name, stripped, or "Player" when that is empty; the name prompt
\* of line 127 is never shown and every record saved has that name: the
\* default "Anon" is never put in, and a record is named Anon only when
\* the user's own entry was Anon.
C20_PlayerNameSaved ==
    /\ NamePassed
    /\ player \in {<<>>, PlayerDefault, Anon}
    /\ \A r \in SavedHere : r.name = player

\* two rounds won by the player who entered no name: two records named
\* Player
C20_Witness ==
    /\ pc = "mainmenu" /\ nPlay = 2
    /\ player = PlayerDefault
    /\ Cardinality(SavedHere) = 2
    /\ \A r \in SavedHere : r.name = PlayerDefault

====
